---- MODULE Spec2Model ----
(***************************************************************************)
(* Model of src/inventory_planner_app.py: process_workbook, the raw-       *)
(* material planning pipeline (BOM explosion, requirement-ledger sync,     *)
(* coverage simulation, shortage sheet, plan highlighting).                *)
(*                                                                         *)
(* Text is a sequence of one-character strings, so that strip, upper,      *)
(* lower, join and split are computed and not assumed.  A spreadsheet cell *)
(* is a record [t, s, n]: t = "none" (empty), "str" (text s), "num"        *)
(* (integer n) or "date" (calendar day n).  Quantities are integers.       *)
(***************************************************************************)
EXTENDS Integers, Sequences, FiniteSets, TLC

\* ------------------------------------------------------------------ bounds
\* number of date columns of a plan sheet that has date columns
NumDates == 2
\* largest planned quantity of a plan cell
MaxQty == 2

\* ------------------------------------------------------------------ text
\* the characters of the model, in code-point order (Python compares str so);
\* "~" stands for the en dash of the placeholder, which also sorts after "z"
Alphabet ==
  << " ", ",", ".", "0", "1", "2", "3", "4", "5", "6", "7", "8", "9",
     "A", "B", "C", "D", "E", "F", "G", "H", "I", "J", "K", "L", "M",
     "N", "O", "P", "Q", "R", "S", "T", "U", "V", "W", "X", "Y", "Z",
     "a", "b", "c", "d", "e", "f", "g", "h", "i", "j", "k", "l", "m",
     "n", "o", "p", "q", "r", "s", "t", "u", "v", "w", "x", "y", "z",
     "~" >>

\* ord(ch), as a position in Alphabet
OrdTable == [ch \in {Alphabet[i] : i \in 1..Len(Alphabet)} |->
               CHOOSE i \in 1..Len(Alphabet) : Alphabet[i] = ch]
Ord(ch) == OrdTable[ch]

IsUpperCh(ch) == Ord(ch) >= Ord("A") /\ Ord(ch) <= Ord("Z")
IsLowerCh(ch) == Ord(ch) >= Ord("a") /\ Ord(ch) <= Ord("z")
IsDigitCh(ch) == Ord(ch) >= Ord("0") /\ Ord(ch) <= Ord("9")

\* str.upper / str.lower, character by character
UpperCh(ch) == IF IsLowerCh(ch) THEN Alphabet[Ord(ch) - Ord("a") + Ord("A")] ELSE ch
LowerCh(ch) == IF IsUpperCh(ch) THEN Alphabet[Ord(ch) - Ord("A") + Ord("a")] ELSE ch
Upper(s) == [i \in 1..Len(s) |-> UpperCh(s[i])]
Lower(s) == [i \in 1..Len(s) |-> LowerCh(s[i])]

\* str.strip: drop leading and trailing blanks
RECURSIVE LStrip(_)
LStrip(s) == IF s # << >> /\ Head(s) = " " THEN LStrip(Tail(s)) ELSE s
RECURSIVE RStrip(_)
RStrip(s) ==
  IF s # << >> /\ s[Len(s)] = " " THEN RStrip(SubSeq(s, 1, Len(s) - 1)) ELSE s
Strip(s) == RStrip(LStrip(s))

\* str.replace(",", ".")
ReplaceComma(s) == [i \in 1..Len(s) |-> IF s[i] = "," THEN "." ELSE s[i]]

\* str < str of Python: lexicographic on code points
RECURSIVE StrLess(_, _)
StrLess(a, b) ==
  IF b = << >> THEN FALSE
  ELSE IF a = << >> THEN TRUE
  ELSE IF Head(a) = Head(b) THEN StrLess(Tail(a), Tail(b))
  ELSE Ord(Head(a)) < Ord(Head(b))

\* ------------------------------------------------------------------ cells
NoneCell == [t |-> "none", s |-> << >>, n |-> 0]
StrCell(s) == [t |-> "str", s |-> s, n |-> 0]
NumCell(n) == [t |-> "num", s |-> << >>, n |-> n]
DateCell(d) == [t |-> "date", s |-> << >>, n |-> d]

\* str(int) for the non-negative integers below 100
DigitCh(k) == Alphabet[Ord("0") + k]
IntStr(n) == IF n < 10 THEN << DigitCh(n) >> ELSE << DigitCh(n \div 10), DigitCh(n % 10) >>

\* str(x) of a cell value: str(None) is "None"
PyStr(c) ==
  CASE c.t = "none" -> << "N", "o", "n", "e" >>
    [] c.t = "str" -> c.s
    [] c.t = "num" -> IntStr(c.n)
    [] OTHER -> << >>

\* value of a string of digits
RECURSIVE DigitsVal(_)
DigitsVal(s) ==
  IF s = << >> THEN 0
  ELSE 10 * DigitsVal(SubSeq(s, 1, Len(s) - 1)) + (Ord(s[Len(s)]) - Ord("0"))

AllDigits(s) == s # << >> /\ \A i \in 1..Len(s) : IsDigitCh(s[i])
AllZeros(s) == \A i \in 1..Len(s) : s[i] = "0"

\* float(s): blanks around the number are accepted; "ddd" and "ddd.000" are
\* the numeric texts of the model, every other text makes float raise
FloatOk(s) ==
  LET t == Strip(s)
  IN \/ AllDigits(t)
     \/ \E k \in 2..Len(t) :
          /\ t[k] = "."
          /\ AllDigits(SubSeq(t, 1, k - 1))
          /\ AllZeros(SubSeq(t, k + 1, Len(t)))

FloatVal(s) ==
  LET t == Strip(s)
  IN IF AllDigits(t) THEN DigitsVal(t)
     ELSE LET k == CHOOSE j \in 2..Len(t) : t[j] = "." IN DigitsVal(SubSeq(t, 1, k - 1))

\* safe_float: a number as it is; text with the comma replaced, parsed; 0.0 on
\* any exception (float(None) raises TypeError, float("x") ValueError)
safe_float(c) ==
  CASE c.t = "num" -> c.n
    [] c.t = "str" ->
         IF FloatOk(ReplaceComma(c.s)) THEN FloatVal(ReplaceComma(c.s)) ELSE 0
    [] OTHER -> 0

clean_comp(c) == Upper(Strip(PyStr(c)))

\* ------------------------------------------------------------------ labels
DelphiPN == << "D", "e", "l", "p", "h", "i", " ", "P", "N" >>
Material == << "M", "a", "t", "e", "r", "i", "a", "l" >>
KeyWords == {DelphiPN, Material}
ComponentLower == << "c", "o", "m", "p", "o", "n", "e", "n", "t" >>
DelphiLower == << "d", "e", "l", "p", "h", "i", " ", "p", "n" >>
APN == << "A", "P", "N" >>
Placeholder == << "~" >>

\* ------------------------------------------------------------------ sequences
\* the elements of s that satisfy keep, in order
SeqFilter(s, keep(_)) ==
  LET F[i \in 0..Len(s)] ==
        IF i = 0 THEN << >>
        ELSE IF keep(s[i]) THEN Append(F[i - 1], s[i]) ELSE F[i - 1]
  IN F[Len(s)]

\* g(1) \o g(2) \o ... \o g(n)
SeqConcat(n, g(_)) ==
  LET F[i \in 0..n] == IF i = 0 THEN << >> ELSE F[i - 1] \o g(i)
  IN F[n]

SeqRange(s) == {s[i] : i \in 1..Len(s)}

\* ------------------------------------------------------------------ helpers
\* detect_header_row: the 0-based index of the first preview row one of whose
\* cells, as stripped text (NaN filled with ""), is a key word; -1 for None
CellText(c) == IF c.t = "none" THEN << >> ELSE Strip(PyStr(c))

detect_header_row(preview) ==
  LET hit(i) == \E j \in 1..Len(preview[i]) : CellText(preview[i][j]) \in KeyWords
  IN IF \E i \in 1..Len(preview) : hit(i)
     THEN (CHOOSE i \in 1..Len(preview) : hit(i) /\ \A k \in 1..(i - 1) : ~hit(k)) - 1
     ELSE -1

\* is_excel_date: a Timestamp is a date; the column names of the model that
\* are text ("Delphi PN", "Unnamed: 0", ...) make pd.to_datetime raise
is_excel_date(col) == col.t = "date"

\* pd.to_datetime(x).date(): the calendar day of a date value
to_date(c) == c.n

\* ------------------------------------------------------------------ phase 1: BOM
\* .loc[:, [Material, Component, Comp. Qty]].dropna(): rows with a missing
\* field are dropped.  A BOM row is [FG, Component, CompQty] (cells).
bom_df(sheet) ==
  SeqFilter(sheet, LAMBDA r : r.FG.t # "none" /\ r.Component.t # "none" /\ r.CompQty.t # "none")

\* ------------------------------------------------------------------ phases 2, 3: plan
\* pd.read_excel(header=hdr_row): the column names are row hdr_row of the sheet
\* and the data are the rows below it
PlanColumns(sheet, h) == sheet[h + 1]
PlanRowsBelow(sheet, h) == SubSeq(sheet, h + 2, Len(sheet))

date_cols_of(columns) ==
  SeqFilter([j \in 1..Len(columns) |-> j], LAMBDA j : is_excel_date(columns[j]))

\* plan.iloc[hdr_row + 1:] of the frame that already starts below the header
plan_data(sheet, h) ==
  LET below == PlanRowsBelow(sheet, h)
  IN SubSeq(below, h + 2, Len(below))

\* melt(id_vars = "FG", value_vars = date_cols).dropna(subset = QtyPlanned):
\* column by column, row by row; FG is the second column of the frame
plan_long(sheet, h) ==
  LET cols == PlanColumns(sheet, h)
      dcs == date_cols_of(cols)
      data == plan_data(sheet, h)
      perCol(k) ==
        SeqConcat(Len(data), LAMBDA r :
          IF data[r][dcs[k]].t = "none" THEN << >>
          ELSE << [FG |-> data[r][2], Date |-> cols[dcs[k]], QtyPlanned |-> data[r][dcs[k]].n] >>)
  IN SeqConcat(Len(dcs), perCol)

\* bom_small.merge(plan_long, on = "FG", how = "inner").assign(TotalNeed = ...):
\* the left rows in order, each with its matching right rows in order
merged_of(bom, plong) ==
  SeqConcat(Len(bom), LAMBDA b :
    SeqConcat(Len(plong), LAMBDA p :
      IF bom[b].FG = plong[p].FG /\ plong[p].FG.t # "none"
      THEN << [FG |-> bom[b].FG, Component |-> bom[b].Component,
               CompQty |-> bom[b].CompQty.n, Date |-> plong[p].Date,
               QtyPlanned |-> plong[p].QtyPlanned,
               TotalNeed |-> bom[b].CompQty.n * plong[p].QtyPlanned] >>
      ELSE << >>))

\* sum of TotalNeed over the rows of m whose group key is (comp, date)
RECURSIVE GroupSum(_, _, _)
GroupSum(m, comp, date) ==
  IF m = << >> THEN 0
  ELSE (IF Head(m).Component = comp /\ Head(m).Date = date THEN Head(m).TotalNeed ELSE 0)
       + GroupSum(Tail(m), comp, date)

\* groupby([Component, Date], sort = False).agg(sum): one row per group, the
\* groups in the order of their first row
tot_need_of(m) ==
  LET first(i) == \A k \in 1..(i - 1) :
                    ~(m[k].Component = m[i].Component /\ m[k].Date = m[i].Date)
  IN SeqConcat(Len(m), LAMBDA i :
       IF first(i)
       THEN << [Component |-> m[i].Component, Date |-> m[i].Date,
                TotalNeed |-> GroupSum(m, m[i].Component, m[i].Date)] >>
       ELSE << >>)

\* exploded_df: Date as a calendar day
exploded_of(tn) ==
  [i \in 1..Len(tn) |-> [Component |-> tn[i].Component, Date |-> to_date(tn[i].Date),
                         TotalNeed |-> tn[i].TotalNeed]]

\* ------------------------------------------------------------------ phase 5: ledger
LookupKey(comp, date) == << clean_comp(comp), to_date(date) >>

\* the dict comprehension: a later row of tot_need_df with the same
\* (clean_comp(Component), day) key replaces the earlier one
need_lookup_of(tn) ==
  LET keys == {LookupKey(tn[i].Component, tn[i].Date) : i \in 1..Len(tn)}
      last(k) == CHOOSE i \in 1..Len(tn) :
                   /\ LookupKey(tn[i].Component, tn[i].Date) = k
                   /\ \A j \in (i + 1)..Len(tn) : LookupKey(tn[j].Component, tn[j].Date) # k
  IN [k \in keys |-> tn[last(k)].TotalNeed]

\* the 1-based row of the ledger header, 0 for None
req_header_row(sheet) ==
  LET hit(r) == Lower(Strip(PyStr(sheet[r][1]))) = ComponentLower
  IN IF \E r \in 1..Len(sheet) : hit(r)
     THEN CHOOSE r \in 1..Len(sheet) : hit(r) /\ \A k \in 1..(r - 1) : ~hit(k)
     ELSE 0

\* mutants of sync_cell: the need always written; the need added to the cell
sync_cell_overwrite(cell, new_val) == NumCell(new_val)
sync_cell_add(cell, new_val) == NumCell(safe_float(cell) + new_val)

\* one cell of the ledger: overwritten only by a larger need
sync_cell(cell, new_val) == IF new_val > safe_float(cell) THEN NumCell(new_val) ELSE cell

\* the ledger after the loop over its rows below the header and the date
\* columns 2 .. 1 + len(ordered_dates)
sync_sheet(sheet, header_row, lookup, ordered_dates) ==
  [r \in 1..Len(sheet) |->
    [c \in 1..Len(sheet[r]) |->
      LET comp == clean_comp(sheet[r][1])
          i == c - 1
      IN IF /\ r > header_row
            /\ comp # << >>
            /\ i >= 1 /\ i <= Len(ordered_dates)
            /\ << comp, to_date(ordered_dates[i]) >> \in DOMAIN lookup
         THEN sync_cell(sheet[r][c], lookup[<< comp, to_date(ordered_dates[i]) >>])
         ELSE sheet[r][c]]]

\* ------------------------------------------------------------------ phase 6: coverage
\* next(r for r in rows if cell(r, 1).value == "APN"): the 1-based row, 0 when
\* the generator is exhausted (next then raises StopIteration)
cov_hdr(sheet) ==
  LET hit(r) == sheet[r][1] = StrCell(APN)
  IN IF \E r \in 1..Len(sheet) : hit(r)
     THEN CHOOSE r \in 1..Len(sheet) : hit(r) /\ \A k \in 1..(r - 1) : ~hit(k)
     ELSE 0

\* ws_cov.max_column: the sheets of the model are rectangular
max_column(sheet) == IF sheet = << >> THEN 0 ELSE Len(sheet[1])

n_days_of(sheet) == (max_column(sheet) - 3) \div 3

\* mutant of idx_transit_of: the columns of the first block
idx_transit_first_block(n_days) ==
  [k \in 1..(IF n_days > 0 THEN n_days ELSE 0) |-> 4 + (k - 1)]

\* idx_transit = [4 + n_days + i for i in range(n_days)], as a sequence
idx_transit_of(n_days) ==
  [k \in 1..(IF n_days > 0 THEN n_days ELSE 0) |-> 4 + n_days + (k - 1)]

\* a row as iter_rows(max_col = 3 + 3 * n_days, values_only = True) yields it
cov_row(sheet, r) ==
  [j \in 1..(3 + 3 * n_days_of(sheet)) |->
     IF j <= Len(sheet[r]) THEN sheet[r][j] ELSE NoneCell]

\* fg_map: (clean_comp(Component), day) -> set of str(FG), over the merged rows
fg_map_of(m) ==
  LET keys == {LookupKey(m[i].Component, m[i].Date) : i \in 1..Len(m)}
  IN [k \in keys |->
       {PyStr(m[i].FG) : i \in {j \in 1..Len(m) : LookupKey(m[j].Component, m[j].Date) = k}}]

\* defaultdict(set) lookup, dict.get(key, 0.0)
fg_get(fgm, key) == IF key \in DOMAIN fgm THEN fgm[key] ELSE {}
need_get(lookup, key) == IF key \in DOMAIN lookup THEN lookup[key] ELSE 0

\* sorted(set of str)
RECURSIVE sorted_strs(_)
sorted_strs(S) ==
  IF S = {} THEN << >>
  ELSE LET m == CHOOSE x \in S : \A y \in S : y = x \/ StrLess(x, y)
       IN << m >> \o sorted_strs(S \ {m})

\* ", ".join(parts)
RECURSIVE join_comma(_)
join_comma(parts) ==
  IF parts = << >> THEN << >>
  ELSE IF Len(parts) = 1 THEN parts[1]
  ELSE parts[1] \o << ",", " " >> \o join_comma(Tail(parts))

fgs_text(fgm, key) ==
  join_comma(IF fg_get(fgm, key) = {} THEN << Placeholder >> ELSE sorted_strs(fg_get(fgm, key)))

\* the test of a day: a shortage when the balance is negative
is_short(balance) == balance < 0

\* mutant of carry: a deficit is not carried over
carry_reset(balance) == IF balance < 0 THEN 0 ELSE balance

\* what the next day starts from
carry(balance) == balance

\* the day loop of one coverage row: F[i] is the state after day i (1-based):
\* prev, the shortages appended, and the supply and balance of every day
sim_row(row, lookup, fgm, ordered_dates, idx_transit) ==
  LET comp == clean_comp(row[1])
      start == safe_float(row[2]) + safe_float(row[3])
      F[i \in 0..Len(ordered_dates)] ==
        IF i = 0 THEN [prev |-> start, out |-> << >>, supply |-> << >>, bal |-> << >>]
        ELSE LET p == F[i - 1]
                 day == ordered_dates[i]
                 add == IF i > 1 THEN safe_float(row[idx_transit[i - 1]]) ELSE 0
                 balance == p.prev + add - need_get(lookup, << comp, day >>)
             IN [prev |-> carry(balance),
                 out |-> IF is_short(balance)
                         THEN Append(p.out, [Date |-> day, Component |-> comp,
                                             FGs |-> fgs_text(fgm, << comp, day >>)])
                         ELSE p.out,
                 supply |-> Append(p.supply, add),
                 bal |-> Append(p.bal, balance)]
  IN F[Len(ordered_dates)]

\* the rows below the header that the loop does not skip (blank component)
cov_rows(sheet, hdr) ==
  SeqFilter([k \in 1..(Len(sheet) - hdr) |-> hdr + k],
            LAMBDA r : clean_comp(cov_row(sheet, r)[1]) # << >>)

\* idx_transit[i - 1] is evaluated for i = 1 .. N-1: IndexError when the list
\* is shorter, as soon as one row is simulated
sim_index_error(sheet, hdr, ordered_dates) ==
  /\ cov_rows(sheet, hdr) # << >>
  /\ Len(ordered_dates) - 1 > Len(idx_transit_of(n_days_of(sheet)))

\* mutant of short_less: sorted by Date alone
short_less_date_only(a, b) == a.Date < b.Date

\* sort_values([Date, Component]): ascending, stable
short_less(a, b) ==
  \/ a.Date < b.Date
  \/ a.Date = b.Date /\ StrLess(a.Component, b.Component)

RECURSIVE sort_values(_)
sort_values(rows) ==
  IF rows = << >> THEN << >>
  ELSE LET rest == sort_values(SubSeq(rows, 1, Len(rows) - 1))
           x == rows[Len(rows)]
           n == Cardinality({i \in 1..Len(rest) : ~short_less(x, rest[i])})
       IN SubSeq(rest, 1, n) \o << x >> \o SubSeq(rest, n + 1, Len(rest))

\* ------------------------------------------------------------------ phase 7: highlighting
\* fg_col_idx: the last header cell that is text and reads "delphi pn"; 0 for None
fg_col_idx_of(header) ==
  LET hit(j) == header[j].t = "str" /\ Lower(Strip(header[j].s)) = DelphiLower
  IN IF \E j \in 1..Len(header) : hit(j)
     THEN CHOOSE j \in 1..Len(header) : hit(j) /\ \A k \in (j + 1)..Len(header) : ~hit(k)
     ELSE 0

\* date_to_col: day -> column of the last header cell that parses as that day
date_to_col_of(header) ==
  LET days == {to_date(header[j]) : j \in {k \in 1..Len(header) : is_excel_date(header[k])}}
  IN [d \in days |->
       CHOOSE j \in 1..Len(header) :
         /\ is_excel_date(header[j]) /\ to_date(header[j]) = d
         /\ \A k \in (j + 1)..Len(header) : ~(is_excel_date(header[k]) /\ to_date(header[k]) = d)]

\* str.split(","): the pieces between the commas
RECURSIVE split_comma(_)
split_comma(s) ==
  IF \E i \in 1..Len(s) : s[i] = ","
  THEN LET k == CHOOSE i \in 1..Len(s) : s[i] = "," /\ \A j \in 1..(i - 1) : s[j] # ","
       IN << SubSeq(s, 1, k - 1) >> \o split_comma(SubSeq(s, k + 1, Len(s)))
  ELSE << s >>

short_fg_date_of(sdf) ==
  UNION {{<< Strip(tok), sdf[i].Date >> : tok \in SeqRange(split_comma(sdf[i].FGs))} : i \in 1..Len(sdf)}

\* mutant of red_cells: the quantity of the cell is not looked at
red_cells_any_qty(sheet, header_row_excel, fg_col, d2c, sfd) ==
  {<< x[1], d2c[x[2]] >> :
     x \in {y \in ((header_row_excel + 1)..Len(sheet)) \X (DOMAIN d2c) :
              /\ sheet[y[1]][fg_col].t # "none"
              /\ << Strip(PyStr(sheet[y[1]][fg_col])), y[2] >> \in sfd}}

\* the cells the loop fills RED: << row, column >> of the plan sheet
red_cells(sheet, header_row_excel, fg_col, d2c, sfd) ==
  {<< x[1], d2c[x[2]] >> :
     x \in {y \in ((header_row_excel + 1)..Len(sheet)) \X (DOMAIN d2c) :
              /\ sheet[y[1]][fg_col].t # "none"
              /\ << Strip(PyStr(sheet[y[1]][fg_col])), y[2] >> \in sfd
              /\ safe_float(sheet[y[1]][d2c[y[2]]]) > 0}}

\* ------------------------------------------------------------------ workbooks
\* The uploaded workbooks of the model.  Four families, each varying the sheets
\* of one part of the pipeline while the other sheets stay simple.
F1 == << "F", "1" >>
F2 == << "F", "2" >>
F1sp == << "F", "1", " " >>
CompA == << "A" >>
CompLowA == << "a" >>
CompSpA == << " ", "a" >>
CompB == << "B" >>
CompSpB == << " ", "b" >>
Blank == << " " >>
Garbage == << "x" >>
ThreeComma == << "3", ",", "0" >>
Title == << "P", "l", "a", "n" >>

Days == 1..NumDates

\* vectors of cells over the days: one cell free, the others alike
Vecs(free, rest) ==
  {[d \in Days |-> IF d = k THEN c ELSE c0] : k \in Days, c \in free, c0 \in rest}

ConstVec(c) == [d \in Days |-> c]

\* --- BOM
BomLine(fg, comp, qty) == [FG |-> fg, Component |-> StrCell(comp), CompQty |-> NumCell(qty)]

BomLines ==
  << BomLine(StrCell(F1), CompA, 2), BomLine(StrCell(F1), CompLowA, 1),
     BomLine(StrCell(F2), CompA, 1), BomLine(StrCell(F2), CompB, 1),
     BomLine(StrCell(F1), Blank, 1), BomLine(NoneCell, CompA, 1) >>

Boms == {<< BomLines[p[1]], BomLines[p[2]] >> :
           p \in {q \in (1..Len(BomLines)) \X (1..Len(BomLines)) : q[1] < q[2]}}

Bom0 == << BomLines[1], BomLines[4] >>

\* --- plan
QtyCells == {NoneCell} \cup {NumCell(q) : q \in 0..MaxQty}
QtyVecs == Vecs(QtyCells, {NumCell(1)})

PlanRow(fg, q) == << NoneCell, fg >> \o q

\* pre title rows, the header (two labels, then nd dates), the data rows
MkPlan(pre, c0, c1, nd, rows) ==
  LET w == 2 + nd
      title == [j \in 1..w |-> IF j = 1 THEN StrCell(Title) ELSE NoneCell]
      header == [j \in 1..w |-> IF j = 1 THEN StrCell(c0)
                                ELSE IF j = 2 THEN StrCell(c1) ELSE DateCell(j - 2)]
  IN [i \in 1..pre |-> title] \o << header >> \o
     [i \in 1..Len(rows) |-> SubSeq(rows[i], 1, w)]

RowA == PlanRow(StrCell(F1), ConstVec(NumCell(MaxQty)))

PlansE ==
  {MkPlan(pre, Material, DelphiPN, NumDates, << RowA, PlanRow(fb, qb), PlanRow(fc, qc) >>) :
     pre \in {0, 1},
     fb \in {StrCell(F1), StrCell(F2), StrCell(F1sp)},
     qb \in {ConstVec(NumCell(1))},
     fc \in {StrCell(F1), StrCell(F2), NoneCell},
     qc \in QtyVecs}

PlansL ==
  {MkPlan(0, Material, DelphiPN, NumDates, << RowA, PlanRow(StrCell(F1), q) >>) : q \in QtyVecs}

PlansC ==
  {MkPlan(0, Material, DelphiPN, NumDates,
          << RowA, PlanRow(StrCell(F1), qb), PlanRow(StrCell(F2), qc) >>) :
     qb \in {ConstVec(NumCell(1)), ConstVec(NoneCell)},
     qc \in Vecs({NumCell(MaxQty)}, {NumCell(0)})}

ID == << "I", "D" >>
PN == << "P", "N" >>

PlansH ==
  {MkPlan(0, c[1], c[2], nd, << RowA, PlanRow(StrCell(F1), ConstVec(NumCell(1))) >>) :
     c \in {<< Material, DelphiPN >>, << Material, PN >>, << ID, DelphiPN >>, << ID, PN >>},
     nd \in {0, NumDates}}

\* --- ledger
ComponentHdr == << "C", "o", "m", "p", "o", "n", "e", "n", "t" >>
ComponentVar == << " ", "C", "O", "M", "P", "O", "N", "E", "N", "T" >>
ReqRow(label, v) == << label >> \o v

LedgerCells == {NoneCell, NumCell(0), NumCell(3), StrCell(ThreeComma), StrCell(Garbage)}
LedgerLabels == {StrCell(CompA), StrCell(CompSpA), StrCell(CompB), StrCell(Blank), NoneCell}

\* a row above the header, the header, two rows below
MkReq(hdr, row1, row2) ==
  << ReqRow(StrCell(CompA), ConstVec(NumCell(0))), ReqRow(hdr, ConstVec(NoneCell)),
     row1, row2 >>

Req0 == MkReq(StrCell(ComponentHdr), ReqRow(StrCell(CompA), ConstVec(NumCell(1))),
              ReqRow(StrCell(Blank), ConstVec(NumCell(0))))

ReqsL ==
  {MkReq(StrCell(ComponentVar), ReqRow(l, v), ReqRow(StrCell(Blank), ConstVec(NumCell(0)))) :
     l \in LedgerLabels, v \in Vecs(LedgerCells, {NumCell(1)})}

ReqsH ==
  {MkReq(h, ReqRow(StrCell(CompA), ConstVec(NumCell(1))),
         ReqRow(StrCell(Blank), ConstVec(NumCell(0)))) :
     h \in {StrCell(ComponentHdr), StrCell(ComponentVar), StrCell(CompB)}}

\* --- coverage
\* a row of width 3 + blocks * NumDates: component, stock, WIP, then blocks of
\* NumDates cells: 7 everywhere but in block tb, which holds the vector t
CovRow(label, stock, wip, blocks, tb, t) ==
  << label, stock, wip >> \o
  [j \in 1..(blocks * NumDates) |->
     IF ((j - 1) \div NumDates) + 1 = tb THEN t[((j - 1) % NumDates) + 1] ELSE NumCell(7)]

MkCov(hdr, blocks, rows) ==
  << [j \in 1..(3 + blocks * NumDates) |-> IF j = 1 THEN hdr ELSE NoneCell] >> \o rows

TransitCells == {NoneCell, NumCell(0), NumCell(2)}

\* blocks = 1: need columns only; 2: need and intransit; 3: three blocks, the
\* intransit figures in the second
CovsC ==
  {MkCov(StrCell(APN), blocks,
         << CovRow(l1, s1, NumCell(0), blocks, 2, t1),
            CovRow(l2, s2, StrCell(ThreeComma), blocks, 2, ConstVec(NumCell(0))) >>) :
     blocks \in {1, 2, 3},
     l1 \in {StrCell(CompB), StrCell(CompSpA)},
     s1 \in {NumCell(0 - 1), NumCell(3)},
     t1 \in Vecs(TransitCells, {NumCell(0)}),
     l2 \in {StrCell(CompA), StrCell(CompSpB), StrCell(Blank)},
     s2 \in {NumCell(0 - 4), NumCell(0)}}

\* every component short on every day
CovShort ==
  MkCov(StrCell(APN), 3,
        << CovRow(StrCell(CompB), NumCell(0 - 1), NumCell(0), 3, 2, ConstVec(NumCell(0))),
           CovRow(StrCell(CompA), NumCell(0 - 1), NoneCell, 3, 2, ConstVec(NumCell(0))) >>)

ApnLower == << "a", "p", "n" >>

CovsH ==
  {MkCov(h, 3, << CovRow(StrCell(CompA), NumCell(0), NumCell(0), 3, 2, ConstVec(NumCell(0))) >>) :
     h \in {StrCell(APN), StrCell(ApnLower), NoneCell}}

Workbook(b, p, r, c) == [bom |-> b, plan |-> p, req |-> r, cov |-> c]

Workbooks ==
  {Workbook(b, p, Req0, CovShort) : b \in Boms, p \in PlansE}
  \cup {Workbook(b, p, r, CovShort) : b \in {Bom0, << BomLines[5], BomLines[2] >>},
                                      p \in PlansL, r \in ReqsL}
  \cup {Workbook(Bom0, p, Req0, c) : p \in PlansC, c \in CovsC}
  \cup {Workbook(Bom0, p, r, c) : p \in PlansH, r \in ReqsH, c \in CovsH}

\* ------------------------------------------------------------------ state
VARIABLES
  bomSheet,        \* sheet BOM: rows [FG, Component, CompQty]
  planSheet,       \* sheet plan: all its rows, the header row among them
  reqSheet,        \* sheet RM TOTAL REQUIREMENT (the ledger)
  covSheet,        \* sheet coverage
  explosionSheet,  \* sheet BOM EXPLOSION: [present, rows]
  shortageSheet,   \* sheet shortage: [present, rows]
  fills,           \* plan cells << row, column >> filled RED
  pc,              \* the position of process_workbook
  failed_at,       \* the position at which the run raised
  err,             \* the exception raised: [type, msg]
  hdr_row, date_cols, merged, tot_need_df, need_lookup, fg_map,
  shortages, short_df,
  sim_log,         \* per simulated row: the supply added and the balance of each day
  saves,           \* the sheets this run has persisted, in order
  run,             \* 1: the run on the uploaded workbook; 2: the run on its result
  req_uploaded,    \* the ledger as it was uploaded
  req_first        \* the ledger as the first run left it

workbook == << bomSheet, planSheet, reqSheet, covSheet, explosionSheet, shortageSheet, fills >>
locals == << hdr_row, date_cols, merged, tot_need_df, need_lookup, fg_map, shortages,
             short_df, sim_log >>
vars == << workbook, pc, failed_at, err, locals, saves, run, req_uploaded, req_first >>

NoErr == [type |-> "", msg |-> ""]
Absent == [present |-> FALSE, rows |-> << >>]

\* ------------------------------------------------------------------ actions
Raise(type, msg) ==
  /\ pc' = "failed"
  /\ failed_at' = pc
  /\ err' = [type |-> type, msg |-> msg]

preview == SubSeq(planSheet, 1, IF Len(planSheet) < 10 THEN Len(planSheet) ELSE 10)

\* 2) raise ValueError when detect_header_row returns None
FailPlanHeader ==
  /\ pc = "start"
  /\ detect_header_row(preview) = -1
  /\ Raise("ValueError", "Could not locate header row in plan sheet!")
  /\ UNCHANGED << workbook, locals, saves, run, req_uploaded, req_first >>

\* 2) raise ValueError when no column name is a date
FailNoDates ==
  /\ pc = "start"
  /\ detect_header_row(preview) # -1
  /\ date_cols_of(PlanColumns(planSheet, detect_header_row(preview))) = << >>
  /\ Raise("ValueError", "No date columns detected in plan sheet.")
  /\ UNCHANGED << workbook, locals, saves, run, req_uploaded, req_first >>

\* 1) - 3) BOM frame, plan header and date columns, merged and tot_need_df
Explode ==
  /\ pc = "start"
  /\ detect_header_row(preview) # -1
  /\ LET h == detect_header_row(preview)
         cols == PlanColumns(planSheet, h)
         dcs == date_cols_of(cols)
         m == merged_of(bom_df(bomSheet), plan_long(planSheet, h))
     IN /\ dcs # << >>
        /\ hdr_row' = h
        /\ date_cols' = [k \in 1..Len(dcs) |-> cols[dcs[k]]]
        /\ merged' = m
        /\ tot_need_df' = tot_need_of(m)
  /\ pc' = "write_explosion"
  /\ UNCHANGED << workbook, failed_at, err, need_lookup, fg_map, shortages, short_df,
                  sim_log, saves, run, req_uploaded, req_first >>

\* 4) ExcelWriter(mode = "a", if_sheet_exists = "replace"): sheet BOM EXPLOSION
WriteExplosion ==
  /\ pc = "write_explosion"
  /\ explosionSheet' = [present |-> TRUE, rows |-> exploded_of(tot_need_df)]
  /\ saves' = Append(saves, "explosion")
  /\ pc' = "sync"
  /\ UNCHANGED << bomSheet, planSheet, reqSheet, covSheet, shortageSheet, fills,
                  failed_at, err, locals, run, req_uploaded, req_first >>

\* 5) raise ValueError when the ledger has no 'Component' header
FailReqHeader ==
  /\ pc = "sync"
  /\ req_header_row(reqSheet) = 0
  /\ Raise("ValueError", "Cannot find 'Component' header in RM TOTAL REQUIREMENT sheet")
  /\ UNCHANGED << workbook, locals, saves, run, req_uploaded, req_first >>

\* 5) need_lookup, the max-overwrite of the ledger cells, wb.save
SyncLedger ==
  /\ pc = "sync"
  /\ req_header_row(reqSheet) # 0
  /\ need_lookup' = need_lookup_of(tot_need_df)
  /\ reqSheet' = sync_sheet(reqSheet, req_header_row(reqSheet), need_lookup_of(tot_need_df),
                            date_cols)
  /\ saves' = Append(saves, "ledger")
  /\ pc' = "simulate"
  /\ UNCHANGED << bomSheet, planSheet, covSheet, explosionSheet, shortageSheet, fills,
                  failed_at, err, hdr_row, date_cols, merged, tot_need_df, fg_map,
                  shortages, short_df, sim_log, run, req_uploaded, req_first >>

\* mutant of FailCovHeader: the shortage sheet is written before the header
\* of the coverage sheet is looked for
FailCovHeader_after_write ==
  /\ pc = "simulate"
  /\ cov_hdr(covSheet) = 0
  /\ Raise("StopIteration", "")
  /\ shortageSheet' = [present |-> TRUE, rows |-> << >>]
  /\ saves' = Append(saves, "shortage")
  /\ UNCHANGED << bomSheet, planSheet, reqSheet, covSheet, explosionSheet, fills,
                  locals, run, req_uploaded, req_first >>

\* 6) next(...) without a default: StopIteration when no row starts with "APN"
FailCovHeader ==
  /\ pc = "simulate"
  /\ cov_hdr(covSheet) = 0
  /\ Raise("StopIteration", "")
  /\ UNCHANGED << workbook, locals, saves, run, req_uploaded, req_first >>

\* 6) idx_transit[i - 1] beyond the list: IndexError
FailCovIndex ==
  /\ pc = "simulate"
  /\ cov_hdr(covSheet) # 0
  /\ sim_index_error(covSheet, cov_hdr(covSheet), date_cols)
  /\ Raise("IndexError", "list index out of range")
  /\ UNCHANGED << workbook, locals, saves, run, req_uploaded, req_first >>

\* 6) the simulation of every coverage row, then the sorted frame
Simulate ==
  /\ pc = "simulate"
  /\ cov_hdr(covSheet) # 0
  /\ ~sim_index_error(covSheet, cov_hdr(covSheet), date_cols)
  /\ LET rows == cov_rows(covSheet, cov_hdr(covSheet))
         days == [i \in 1..Len(date_cols) |-> to_date(date_cols[i])]
         fgm == fg_map_of(merged)
         res == [k \in 1..Len(rows) |->
                   sim_row(cov_row(covSheet, rows[k]), need_lookup, fgm, days,
                           idx_transit_of(n_days_of(covSheet)))]
         out == SeqConcat(Len(rows), LAMBDA k : res[k].out)
     IN /\ fg_map' = fgm
        /\ shortages' = out
        /\ short_df' = sort_values(out)
        /\ sim_log' = [k \in 1..Len(rows) |->
                         [row |-> rows[k], supply |-> res[k].supply, bal |-> res[k].bal]]
  /\ pc' = "write_shortage"
  /\ UNCHANGED << workbook, failed_at, err, hdr_row, date_cols, merged, tot_need_df,
                  need_lookup, saves, run, req_uploaded, req_first >>

\* 6) ExcelWriter: sheet shortage
WriteShortage ==
  /\ pc = "write_shortage"
  /\ shortageSheet' = [present |-> TRUE, rows |-> short_df]
  /\ saves' = Append(saves, "shortage")
  /\ pc' = "highlight"
  /\ UNCHANGED << bomSheet, planSheet, reqSheet, covSheet, explosionSheet, fills,
                  failed_at, err, locals, run, req_uploaded, req_first >>

\* 7) raise ValueError when the plan header has no 'Delphi PN' cell
FailNoDelphi ==
  /\ pc = "highlight"
  /\ fg_col_idx_of(planSheet[hdr_row + 1]) = 0
  /\ Raise("ValueError", "Could not find 'Delphi PN' column in PLAN sheet header")
  /\ UNCHANGED << workbook, locals, saves, run, req_uploaded, req_first >>

\* 7) the RED fills, wb_hl.save
Highlight ==
  /\ pc = "highlight"
  /\ fg_col_idx_of(planSheet[hdr_row + 1]) # 0
  /\ fills' = fills \cup red_cells(planSheet, hdr_row + 1, fg_col_idx_of(planSheet[hdr_row + 1]),
                                   date_to_col_of(planSheet[hdr_row + 1]),
                                   short_fg_date_of(short_df))
  /\ saves' = Append(saves, "highlight")
  /\ pc' = "done"
  /\ UNCHANGED << bomSheet, planSheet, reqSheet, covSheet, explosionSheet, shortageSheet,
                  failed_at, err, locals, run, req_uploaded, req_first >>

\* the pipeline is run again on the workbook the first run returned
Rerun ==
  /\ pc = "done"
  /\ run = 1
  /\ run' = 2
  /\ pc' = "start"
  /\ req_first' = reqSheet
  /\ saves' = << >>
  /\ hdr_row' = -1
  /\ date_cols' = << >>
  /\ merged' = << >>
  /\ tot_need_df' = << >>
  /\ need_lookup' = << >>
  /\ fg_map' = << >>
  /\ shortages' = << >>
  /\ short_df' = << >>
  /\ sim_log' = << >>
  /\ UNCHANGED << workbook, failed_at, err, req_uploaded >>

Init ==
  \E w \in Workbooks :
    /\ bomSheet = w.bom
    /\ planSheet = w.plan
    /\ reqSheet = w.req
    /\ covSheet = w.cov
    /\ explosionSheet = Absent
    /\ shortageSheet = Absent
    /\ fills = {}
    /\ pc = "start"
    /\ failed_at = ""
    /\ err = NoErr
    /\ hdr_row = -1
    /\ date_cols = << >>
    /\ merged = << >>
    /\ tot_need_df = << >>
    /\ need_lookup = << >>
    /\ fg_map = << >>
    /\ shortages = << >>
    /\ short_df = << >>
    /\ sim_log = << >>
    /\ saves = << >>
    /\ run = 1
    /\ req_uploaded = w.req
    /\ req_first = << >>

Next ==
  \/ FailPlanHeader
  \/ FailNoDates
  \/ Explode
  \/ WriteExplosion
  \/ FailReqHeader
  \/ SyncLedger
  \/ FailCovHeader
  \/ FailCovIndex
  \/ Simulate
  \/ WriteShortage
  \/ FailNoDelphi
  \/ Highlight
  \/ Rerun

Spec == Init /\ [][Next]_vars

TypeOK == pc \in {"start", "write_explosion", "sync", "simulate", "write_shortage",
                  "highlight", "done", "failed"}

\* ------------------------------------------------------------------ positions
\* the ledger sync of the current run has completed
SyncDone ==
  \/ pc \in {"simulate", "write_shortage", "highlight", "done"}
  \/ pc = "failed" /\ failed_at \in {"simulate", "highlight"}

\* the coverage simulation of the current run has completed
SimDone ==
  \/ pc \in {"write_shortage", "highlight", "done"}
  \/ pc = "failed" /\ failed_at = "highlight"

\* the ledger as the current run found it
ReqInput == IF run = 1 THEN req_uploaded ELSE req_first

NumPlanDates == Len(date_cols)
PlanDay(i) == to_date(date_cols[i])

\* f(1) + ... + f(n)
SumTo(n, f(_)) ==
  LET S[i \in 0..(IF n > 0 THEN n ELSE 0)] == IF i = 0 THEN 0 ELSE S[i - 1] + f(i)
  IN S[IF n > 0 THEN n ELSE 0]

Max(a, b) == IF a >= b THEN a ELSE b

\* ------------------------------------------------------------------ C1
\* the coverage rows below the header whose component is not blank
CovDataRows == {r \in (cov_hdr(covSheet) + 1)..Len(covSheet) : clean_comp(covSheet[r][1]) # << >>}

\* intransit[k] of a coverage row, k = 0 .. : the k-th cell of the block the
\* simulator reads its supply from
Intransit(r, k) == safe_float(covSheet[r][4 + n_days_of(covSheet) + k])

\* the balance of row r after day i (1-based), in closed form: stock + wip
\* plus the intransit of the days before, less the need of the days so far
Balance(r, i) ==
  safe_float(covSheet[r][2]) + safe_float(covSheet[r][3])
  + SumTo(i - 1, LAMBDA k : Intransit(r, k - 1))
  - SumTo(i, LAMBDA k : need_get(need_lookup, << clean_comp(covSheet[r][1]), PlanDay(k) >>))

\* the (date, component) pairs with a negative balance, row by row, day by day
ExpectedShortages ==
  SeqConcat(Len(covSheet), LAMBDA r :
    IF r \in CovDataRows
    THEN SeqConcat(NumPlanDates, LAMBDA i :
           IF Balance(r, i) < 0
           THEN << << PlanDay(i), clean_comp(covSheet[r][1]) >> >>
           ELSE << >>)
    ELSE << >>)

\* C1: once the simulation has run, a shortage (d_i, c) has been emitted for a
\* coverage row with non-blank component c and plan date d_i exactly when
\* balance_i < 0, where balance_0 = stock + wip - need(c, d_0) and balance_i =
\* balance_(i-1) + intransit[i-1] - need(c, d_i), need being 0 for a key the
\* lookup lacks: a negative balance is carried into the next day as it is.
C1_ShortageIffNegative ==
  SimDone =>
    /\ [i \in 1..Len(shortages) |-> << shortages[i].Date, shortages[i].Component >>]
         = ExpectedShortages
    /\ \A k \in 1..Len(sim_log) : \A i \in 1..NumPlanDates :
         sim_log[k].bal[i] = Balance(sim_log[k].row, i)

\* a row went negative, stayed in deficit after supply arrived, and was
\* reported on both days
C1_Witness ==
  /\ SimDone
  /\ \E k \in 1..Len(sim_log) : \E i \in 2..NumPlanDates :
       /\ sim_log[k].bal[i - 1] < 0
       /\ sim_log[k].supply[i] > 0
       /\ sim_log[k].bal[i] < 0
       /\ sim_log[k].bal[i] > sim_log[k].bal[i - 1]
  /\ \E k \in 1..Len(sim_log) : \E i \in 1..NumPlanDates : sim_log[k].bal[i] >= 0
  /\ shortages # << >>

\* ------------------------------------------------------------------ C2
ReqHeader == req_header_row(ReqInput)

\* the claim for the cell of ledger row r and date position i
LedgerCellAsClaimed(r, i) ==
  LET key == << clean_comp(ReqInput[r][1]), PlanDay(i) >>
      before == ReqInput[r][1 + i]
      after == reqSheet[r][1 + i]
  IN /\ IF key \in DOMAIN need_lookup
        THEN safe_float(after) = Max(safe_float(before), need_lookup[key])
        ELSE after = before
     /\ safe_float(after) >= safe_float(before)

\* C2 as stated: after the ledger sync every cell of every row below the
\* 'Component' header, at every date position, holds max(input, need) when the
\* lookup has a need for (normalized component, date) and is untouched
\* otherwise, and no cell is numerically lower than before.
C2_Original ==
  SyncDone =>
    \A r \in (ReqHeader + 1)..Len(reqSheet) : \A i \in 1..NumPlanDates :
      LedgerCellAsClaimed(r, i)

\* C2 amended: the same for the rows below the header whose normalized
\* component label is not empty; a row with a blank label is left as it was,
\* whatever the lookup holds.
C2_Amended ==
  SyncDone =>
    \A r \in (ReqHeader + 1)..Len(reqSheet) :
      IF clean_comp(ReqInput[r][1]) # << >>
      THEN \A i \in 1..NumPlanDates : LedgerCellAsClaimed(r, i)
      ELSE reqSheet[r] = ReqInput[r]

\* the sync overwrote one cell with a larger need and kept another one that
\* was larger than its need
C2_Witness ==
  /\ SyncDone
  /\ \E r \in (ReqHeader + 1)..Len(reqSheet) : \E i \in 1..NumPlanDates :
       /\ << clean_comp(ReqInput[r][1]), PlanDay(i) >> \in DOMAIN need_lookup
       /\ clean_comp(ReqInput[r][1]) # << >>
       /\ reqSheet[r][1 + i] # ReqInput[r][1 + i]
  /\ \E r \in (ReqHeader + 1)..Len(reqSheet) : \E i \in 1..NumPlanDates :
       /\ << clean_comp(ReqInput[r][1]), PlanDay(i) >> \in DOMAIN need_lookup
       /\ need_lookup[<< clean_comp(ReqInput[r][1]), PlanDay(i) >>] > 0
       /\ safe_float(ReqInput[r][1 + i]) > need_lookup[<< clean_comp(ReqInput[r][1]), PlanDay(i) >>]
       /\ reqSheet[r][1 + i] = ReqInput[r][1 + i]

\* ------------------------------------------------------------------ C3, C4
\* the BOM lines with no missing field
BomEntries == {k \in 1..Len(bomSheet) :
                 /\ bomSheet[k].FG.t # "none"
                 /\ bomSheet[k].Component.t # "none"
                 /\ bomSheet[k].CompQty.t # "none"}

\* the plan rows: every sheet row below the header row
PlanDataRows == (hdr_row + 2)..Len(planSheet)

\* the plan column of the i-th plan date
PlanDateCol(i) == CHOOSE j \in 1..Len(planSheet[hdr_row + 1]) : planSheet[hdr_row + 1][j] = date_cols[i]

\* the pairs (BOM line, plan row) of one finished good with a planned quantity
\* on the i-th date, the BOM line being one of normalized component c
Joined(c, i) ==
  {x \in BomEntries \X PlanDataRows :
     /\ clean_comp(bomSheet[x[1]].Component) = c
     /\ planSheet[x[2]][2] = bomSheet[x[1]].FG
     /\ planSheet[x[2]][PlanDateCol(i)].t # "none"}

\* the sum of the values of a function over the set S
RECURSIVE SumOver(_, _)
SumOver(S, f) ==
  IF S = {} THEN 0
  ELSE LET x == CHOOSE y \in S : TRUE IN f[x] + SumOver(S \ {x}, f)

\* sum of qtyPerUnit x plannedQty over the joined pairs
ExplodedNeed(c, i) ==
  SumOver(Joined(c, i),
          [x \in Joined(c, i) |->
             bomSheet[x[1]].CompQty.n * planSheet[x[2]][PlanDateCol(i)].n])

NormalizedComponents ==
  {clean_comp(bomSheet[k].Component) : k \in BomEntries} \cup {k[1] : k \in DOMAIN need_lookup}

\* C3 as stated: the need the reconciler and the simulator look up for a
\* normalized component c and plan date d is the sum of qtyPerUnit x plannedQty
\* over the BOM lines of normalized label c joined with the plan rows of the
\* same finished good on d (0 when nothing joins).
C3_Claim ==
  SyncDone =>
    \A c \in NormalizedComponents : \A i \in 1..NumPlanDates :
      need_get(need_lookup, << c, PlanDay(i) >>) = ExplodedNeed(c, i)

\* the finished goods with a BOM entry for c and a nonzero planned quantity on
\* the i-th date
CausingFGs(c, i) ==
  {PyStr(bomSheet[x[1]].FG) :
     x \in {y \in Joined(c, i) : planSheet[y[2]][PlanDateCol(i)].n # 0}}

DayIndex(d) == CHOOSE i \in 1..NumPlanDates : PlanDay(i) = d

C5_Idempotent == run = 2 => reqSheet = req_first

\* the first run changed the ledger and the second run has synced it again
C5_Witness ==
  /\ run = 2
  /\ pc = "done"
  /\ req_first # req_uploaded
  /\ \E k \in DOMAIN need_lookup : need_lookup[k] > 0

\* ------------------------------------------------------------------ C6
\* the table a message names
TableNamed(msg) ==
  CASE msg = "Could not locate header row in plan sheet!" -> "plan"
    [] msg = "Cannot find 'Component' header in RM TOTAL REQUIREMENT sheet" -> "ledger"
    [] msg = "No date columns detected in plan sheet." -> "plan"
    [] msg = "Could not find 'Delphi PN' column in PLAN sheet header" -> "plan"
    [] OTHER -> "none"

\* the header row of a table the run has reached cannot be located
PlanHeaderMissing == failed_at = "start" /\ detect_header_row(preview) = -1
LedgerHeaderMissing == failed_at = "sync" /\ req_header_row(reqSheet) = 0
CoverageHeaderMissing ==
  failed_at = "simulate" /\ ~(\E r \in 1..Len(covSheet) : covSheet[r][1] = StrCell(APN))

\* C6 as stated: a missing plan, ledger or coverage header aborts the run with
\* the header-not-found error (the ValueError of the pipeline) whose message
\* names the table.
C6_Claim ==
  pc = "failed" =>
    /\ PlanHeaderMissing => err.type = "ValueError" /\ TableNamed(err.msg) = "plan"
    /\ LedgerHeaderMissing => err.type = "ValueError" /\ TableNamed(err.msg) = "ledger"
    /\ CoverageHeaderMissing => err.type = "ValueError" /\ TableNamed(err.msg) = "coverage"

\* ------------------------------------------------------------------ C7
WriteOrder == << "explosion", "ledger", "shortage", "highlight" >>

\* the number of persisting phases before the one a position belongs to
PhasesBefore(at) ==
  CASE at = "start" -> 0
    [] at = "write_explosion" -> 0
    [] at = "sync" -> 1
    [] at = "simulate" -> 2
    [] at = "write_shortage" -> 2
    [] at = "highlight" -> 3
    [] OTHER -> 4

\* C7: in a run on a fresh workbook the sheets are persisted in the order
\* explosion, ledger, shortage, highlighting; a run that fails in a phase
\* leaves exactly the writes of the phases before it: only then is the
\* explosion sheet present, the ledger saved, the shortage sheet present, and
\* no cell is highlighted.
C7_PartialWrites ==
  run = 1 =>
    /\ saves = SubSeq(WriteOrder, 1, Len(saves))
    /\ pc = "failed" =>
         /\ saves = SubSeq(WriteOrder, 1, PhasesBefore(failed_at))
         /\ explosionSheet.present <=> PhasesBefore(failed_at) >= 1
         /\ PhasesBefore(failed_at) < 2 => reqSheet = req_uploaded
         /\ shortageSheet.present <=> PhasesBefore(failed_at) >= 3
         /\ fills = {}

\* the shortage phase failed after the explosion sheet and a changed ledger
\* were written
C7_Witness ==
  /\ run = 1
  /\ pc = "failed"
  /\ failed_at = "simulate"
  /\ explosionSheet.present
  /\ explosionSheet.rows # << >>
  /\ reqSheet # req_uploaded
  /\ ~shortageSheet.present
  /\ fills = {}

\* ------------------------------------------------------------------ C8
\* the finished-good codes, trimmed, reported as causing a shortage on day d
Implicated(d) ==
  UNION {{Strip(f) : f \in fg_get(fg_map, << shortages[k].Component, d >>)} :
           k \in {j \in 1..Len(shortages) : shortages[j].Date = d}}

SupplyFromSecondBlock ==
  \A k \in 1..Len(sim_log) : \A i \in 2..NumPlanDates :
    sim_log[k].supply[i] = safe_float(covSheet[sim_log[k].row][(3 + NumPlanDates + (i - 2)) + 1])

\* C9 as stated: for a coverage table of 3 + N + N columns the supply added
\* before a day is the cell of the (i-1)-th column after the N need columns,
\* and no row raises an index error.
C9_Original ==
  (NumPlanDates > 0 /\ max_column(covSheet) = 3 + 2 * NumPlanDates) =>
    /\ err.type # "IndexError"
    /\ SimDone => SupplyFromSecondBlock

\* C9 amended: for a coverage table of 3 + 3N columns (three blocks of N
\* columns after the 3 leading ones) the supply added before day i is the
\* cell at 0-based column 3 + N + (i-1), the (i-1)-th cell of the second
\* block, and every row is simulated for all N dates without an index error.
C9_Amended ==
  (NumPlanDates > 0 /\ max_column(covSheet) = 3 + 3 * NumPlanDates) =>
    /\ err.type # "IndexError"
    /\ pc = "simulate" => ~sim_index_error(covSheet, cov_hdr(covSheet), date_cols)
    /\ SimDone => SupplyFromSecondBlock /\ \A k \in 1..Len(sim_log) : Len(sim_log[k].bal) = NumPlanDates

\* a table of three blocks was simulated and supply from its second block
\* was added
C9_Witness ==
  /\ SimDone
  /\ max_column(covSheet) = 3 + 3 * NumPlanDates
  /\ \E k \in 1..Len(sim_log) : \E i \in 2..NumPlanDates :
       /\ sim_log[k].supply[i] = 2
       /\ covSheet[sim_log[k].row][(3 + NumPlanDates + (i - 2)) + 1] = NumCell(2)

\* ------------------------------------------------------------------ C10
Ordered(rows) ==
  \A i \in 1..(Len(rows) - 1) :
    \/ rows[i].Date < rows[i + 1].Date
    \/ /\ rows[i].Date = rows[i + 1].Date
       /\ ~StrLess(rows[i + 1].Component, rows[i].Component)

Count(rows, x) == Cardinality({i \in 1..Len(rows) : rows[i] = x})

\* C10: the shortage frame of a run, which is also what the shortage sheet
\* holds, is the emitted shortages ordered by date and, within a date, by
\* component.
C10_Sorted ==
  /\ SimDone =>
       /\ Ordered(short_df)
       /\ Len(short_df) = Len(shortages)
       /\ \A i \in 1..Len(shortages) : Count(short_df, shortages[i]) = Count(shortages, shortages[i])
  /\ pc \in {"highlight", "done"} => shortageSheet = [present |-> TRUE, rows |-> short_df]
  /\ Ordered(shortageSheet.rows)

\* the shortages were emitted out of order and the frame is not the list
C10_Witness ==
  /\ pc = "done"
  /\ ~Ordered(shortages)
  /\ short_df # shortages
  /\ \E i \in 1..(Len(short_df) - 1) :
       short_df[i].Date = short_df[i + 1].Date /\ short_df[i].Component # short_df[i + 1].Component

====
